---- MODULE Spec2Model ----
(***************************************************************************)
(* Quota, ban and daily-reset state machine of the Telegram relay bot      *)
(* (src/index.js).  The module-level maps dailyPost, dailyDownload,        *)
(* welcomed and banned are the state; every registered handler is one      *)
(* action (two where the handler suspends at an await).  Message texts are *)
(* sequences of space-separated tokens, so that text.split(" ") is the     *)
(* sequence itself and String.includes is a search over the tokens.        *)
(***************************************************************************)
EXTENDS Integers, Sequences, FiniteSets, TLC

\* ---------------------------------------------------------------- bounds
\* Number of half hours the clock may advance after launch.
MaxTicks == 5
\* Number of member-post handlers that may be suspended at their relay await.
MaxPending == 1

\* ------------------------------------------------------- program constants
\* one hour of Date.now(), in ms
HOUR == 60 * 60 * 1000
\* Date.now() at launch: one day into the epoch, so that stored expiries
\* stay positive
StartTime == 24 * HOUR
\* the step of the model's clock
HalfHour == HOUR \div 2
\* process.env.OWNER_ID
OWNER == 1
\* a member who is not the owner (the id of the documented /ban example)
Member == 12345
TEXT_LIMIT == 5
MEDIA_LIMIT == 10
DOWNLOAD_LIMIT == 2

TARGET == "TARGET"
LOG == "LOG"

MSG_BANNED == "Kamu sedang diban sementara."
MSG_NOTAG == "Wajib sertakan #pria atau #wanita"
MSG_TEXT_QUOTA == "Batas teks harian tercapai"
MSG_MEDIA_QUOTA == "Batas media harian tercapai"
MSG_DL_QUOTA == "Limit download harian tercapai"
MSG_DL_OK == "Link diterima."
MSG_BAN_OK == "User diban"
MSG_UNBAN_OK == "Unban berhasil"
MSG_KICK_OK == "User dikick"
MSG_WELCOME == "Selamat datang"

Users == {OWNER, Member}

\* A JS number: NaN, or the integer n.
Num(n) == [nan |-> FALSE, n |-> n]
NaN == [nan |-> TRUE, n |-> 0]
\* The value undefined; as a property key it is the string "undefined".
Undefined == "undefined"

\* ------------------------------------------------------------ JS helpers
\* Property keys of a JS object are strings: banned[12345] is banned["12345"].
Key(id) == ToString(id)

\* Number(tok) for the tokens the model sends; anything else is NaN.
ToNumber(tok) ==
  CASE tok = "0" -> Num(0)
    [] tok = "1" -> Num(1)
    [] tok = "2" -> Num(2)
    [] tok = "3" -> Num(3)
    [] tok = "-3" -> Num(-3)
    [] tok = "12345" -> Num(12345)
    [] OTHER -> NaN

\* a + b and a * b of JS numbers: NaN is contagious.
JsAdd(a, b) == IF a.nan \/ b.nan THEN NaN ELSE Num(a.n + b.n)
JsMul(a, b) == IF a.nan \/ b.nan THEN NaN ELSE Num(a.n * b.n)
\* Boolean(x) of a JS number
Truthy(x) == ~x.nan /\ x.n # 0

\* tok.includes(needle) for the tokens of the model
TokIncludes(tok, needle) ==
  \/ tok = needle
  \/ needle = "http" /\ tok \in {"http://x", "https://x", "httpd"}
  \/ needle = "#pria" /\ tok \in {"#priawan"}

\* text.includes(needle), needle without a space
Includes(text, needle) == \E i \in 1..Len(text) : TokIncludes(text[i], needle)

\* /https?:\/\//.test(text)
MatchesUrl(text) == \E i \in 1..Len(text) : text[i] \in {"http://x", "https://x"}

\* text.split(" ")[i] with 0-based i; undefined past the end
Split(text, i) == IF i + 1 <= Len(text) THEN text[i + 1] ELSE Undefined

\* mutant: a value already stored under the key is kept
Put_keep(obj, key, val) ==
  [k \in (DOMAIN obj) \cup {key} |-> IF k \in DOMAIN obj THEN obj[k] ELSE val]
\* obj[key] = val on a JS object modelled as a function
Put(obj, key, val) ==
  [k \in (DOMAIN obj) \cup {key} |-> IF k = key THEN val ELSE obj[k]]
\* mutant: the delete does nothing
Delete_noop(obj, key) == obj
\* delete obj[key]
Delete(obj, key) == [k \in (DOMAIN obj) \ {key} |-> obj[k]]
\* {}
EmptyObj == [k \in {} |-> 0]

\* ----------------------------------------------------------------- state
VARIABLES
  dailyPost,      \* user id -> [text, media]      (src/index.js:10)
  dailyDownload,  \* user id -> count              (src/index.js:11)
  welcomed,       \* Set of user ids               (src/index.js:12)
  banned,         \* key -> expiry, a JS number   (src/index.js:13)
  now,            \* Date.now()
  pending,        \* member-post handlers suspended at their relay await
  out,            \* platform calls made by the last step, in order
  lastBan,        \* history: key -> when and with which hours argument the
                  \* key was last banned, whether that ban moved the
                  \* expiry earlier, and whether an unban lifted it
  ev,             \* history: the handler that ran last and its update
  eager           \* the ban records of a tracker that purges eagerly

vars == <<dailyPost, dailyDownload, welcomed, banned, now, pending, out, lastBan, ev, eager>>

\* one platform call
Call(api, chat, from, gender, body) ==
  [api |-> api, chat |-> chat, from |-> from, gender |-> gender, body |-> body]
Reply(ctx, msg) == Call("reply", ctx.chat, ctx.from, "-", <<msg>>)

\* The context of one update: sender, chat type, message kind, the text
\* (caption for a photo or video) and the new_chat_members list.
Ctx(from, chat, kind, text, members) ==
  [from |-> from, chat |-> chat, kind |-> kind, text |-> text, members |-> members]
\* no update: a timer callback or the clock
NoCtx == Ctx(0, "-", "-", <<>>, <<>>)
\* the handler op ran on the update ctx
Ev(op, ctx) == [op |-> op, ctx |-> ctx]

\* ----------------------------------------------------------------- utils
\* mutant: a ban still holds at the instant it expires
isBanned_inclusive(id) ==
  /\ Key(id) \in DOMAIN banned
  /\ Truthy(banned[Key(id)])
  /\ banned[Key(id)].n >= now

\* banned[id] && banned[id] > Date.now(); a comparison with NaN is false
isBanned(id) ==
  /\ Key(id) \in DOMAIN banned
  /\ Truthy(banned[Key(id)])
  /\ banned[Key(id)].n > now

\* The eager tracker: a ban record is deleted as soon as its expiry passes,
\* that is when the clock reaches it; a NaN expiry never passes.
EagerPurge(e, t) ==
  [k \in {j \in DOMAIN e : e[j].nan \/ e[j].n > t} |-> e[k]]
\* ban of the eager tracker at time t
EagerBan(e, key, val, t) == EagerPurge(Put(e, key, val), t)
\* unban of the eager tracker
EagerUnban(e, key) == Delete(e, key)
\* is-banned of the eager tracker: a record exists and expiresAt > now
EagerIsBanned(id) ==
  /\ Key(id) \in DOMAIN eager
  /\ ~eager[Key(id)].nan
  /\ eager[Key(id)].n > now

TextCount(u) == IF u \in DOMAIN dailyPost THEN dailyPost[u].text ELSE 0
MediaCount(u) == IF u \in DOMAIN dailyPost THEN dailyPost[u].media ELSE 0
DownloadCount(u) == IF u \in DOMAIN dailyDownload THEN dailyDownload[u] ELSE 0

Init ==
  /\ dailyPost = EmptyObj
  /\ dailyDownload = EmptyObj
  /\ welcomed = {}
  /\ banned = EmptyObj
  /\ now = StartTime
  /\ pending = {}
  /\ out = <<>>
  /\ lastBan = EmptyObj
  /\ ev = Ev("start", NoCtx)
  /\ eager = EmptyObj

\* ------------------------------------------------------------ resetDaily
\* mutant: the reset forgets the download counters
resetDaily_posts ==
  /\ dailyPost' = EmptyObj
  /\ out' = <<>>
  /\ ev' = Ev("resetDaily", NoCtx)
  /\ UNCHANGED <<dailyDownload, welcomed, banned, now, pending, lastBan, eager>>

resetDaily ==
  /\ dailyPost' = EmptyObj
  /\ dailyDownload' = EmptyObj
  /\ out' = <<>>
  /\ ev' = Ev("resetDaily", NoCtx)
  /\ UNCHANGED <<welcomed, banned, now, pending, lastBan, eager>>

\* the clock advances by half an hour
Tick ==
  /\ now < StartTime + MaxTicks * HalfHour
  /\ now' = now + HalfHour
  /\ out' = <<>>
  /\ ev' = Ev("tick", NoCtx)
  /\ eager' = EagerPurge(eager, now')
  /\ UNCHANGED <<dailyPost, dailyDownload, welcomed, banned, pending, lastBan>>

\* ----------------------------------------------------------- member post
\* mutant: the two labels are exchanged
Gender_swapped(text) ==
  IF Includes(text, "#pria") THEN "Wanita"
  ELSE IF Includes(text, "#wanita") THEN "Pria"
  ELSE "null"

\* text.includes("#pria") ? "Pria" : text.includes("#wanita") ? "Wanita" : null
Gender(text) ==
  IF Includes(text, "#pria") THEN "Pria"
  ELSE IF Includes(text, "#wanita") THEN "Wanita"
  ELSE "null"

\* mutant: the tag check is skipped
MissingGender_never(g) == FALSE
\* !gender
MissingGender(g) == g = "null"

\* dailyPost[id] ??= { text: 0, media: 0 }
WithPostEntry(id) ==
  IF id \in DOMAIN dailyPost THEN dailyPost
  ELSE Put(dailyPost, id, [text |-> 0, media |-> 0])

\* mutant: the limit test lets one post too many through
TextQuotaReached_off(e) == e.text > TEXT_LIMIT
\* dailyPost[id].text >= 5 on the entry e
TextQuotaReached(e) == e.text >= TEXT_LIMIT
\* dailyPost[id].media >= 10 on the entry e
MediaQuotaReached(e) == e.media >= MEDIA_LIMIT
\* dailyPost[id].text++
IncText(e) == [e EXCEPT !.text = @ + 1]
\* mutant: a media post is counted as a text post as well
IncMedia_both(e) == [e EXCEPT !.media = @ + 1, !.text = @ + 1]
\* dailyPost[id].media++
IncMedia(e) == [e EXCEPT !.media = @ + 1]

\* bot.on(["text", "photo", "video"], ...) up to the await of the relay.
\* ctx.text is message.text of a text message and message.caption of a
\* photo or video (<<>> when there is no caption).  An admitted post leaves
\* its handler h suspended in pending; the model holds at most MaxPending
\* suspended handlers, no two of them alike.
MemberPost(ctx) ==
  /\ ctx.kind \in {"text", "photo", "video"}
  /\ ev' = Ev("post", ctx)
  /\ UNCHANGED <<dailyDownload, welcomed, banned, now, lastBan, eager>>
  /\ IF ctx.chat # "private"
       THEN /\ out' = <<>>
            /\ UNCHANGED <<dailyPost, pending>>
     ELSE IF isBanned(ctx.from)
       THEN /\ out' = <<Reply(ctx, MSG_BANNED)>>
            /\ UNCHANGED <<dailyPost, pending>>
     ELSE IF MissingGender(Gender(ctx.text))
       THEN /\ out' = <<Reply(ctx, MSG_NOTAG)>>
            /\ UNCHANGED <<dailyPost, pending>>
     ELSE LET dp == WithPostEntry(ctx.from)
              h == [from |-> ctx.from, kind |-> ctx.kind,
                    gender |-> Gender(ctx.text), text |-> ctx.text]
          IN IF ctx.kind = "text"
               THEN IF TextQuotaReached(dp[ctx.from])
                      THEN /\ dailyPost' = dp
                           /\ out' = <<Reply(ctx, MSG_TEXT_QUOTA)>>
                           /\ UNCHANGED pending
                      ELSE /\ h \notin pending
                           /\ Cardinality(pending) < MaxPending
                           /\ dailyPost' = Put(dp, ctx.from, IncText(dp[ctx.from]))
                           /\ out' = <<Call("sendMessage", TARGET, ctx.from, "-", ctx.text)>>
                           /\ pending' = pending \cup {h}
               ELSE IF MediaQuotaReached(dp[ctx.from])
                      THEN /\ dailyPost' = dp
                           /\ out' = <<Reply(ctx, MSG_MEDIA_QUOTA)>>
                           /\ UNCHANGED pending
                      ELSE /\ h \notin pending
                           /\ Cardinality(pending) < MaxPending
                           /\ dailyPost' = Put(dp, ctx.from, IncMedia(dp[ctx.from]))
                           /\ out' = <<Call("copyMessage", TARGET, ctx.from, "-", <<"MEDIA">>)>>
                           /\ pending' = pending \cup {h}

\* log(ctx, gender, content): the line sent to the log chat, of which the
\* sender id, the gender and the content are kept
log(h) ==
  Call("sendMessage", LOG, h.from, h.gender,
       IF h.kind = "text" THEN h.text ELSE <<"MEDIA">>)

\* mutant: the log line is written whether the relay succeeded or not
LogAfterRelay_always(h, ok) == <<log(h)>>
\* after the await: the log line when the relay was fulfilled; a rejected
\* await throws out of the handler before log(...) is reached
LogAfterRelay(h, ok) == IF ok THEN <<log(h)>> ELSE <<>>

\* mutant: the counter is incremented after the await instead of before it
MemberPostResume_late(h, ok) ==
  /\ h \in pending
  /\ pending' = pending \ {h}
  /\ out' = LogAfterRelay(h, ok)
  /\ ev' = Ev("resume", Ctx(h.from, "private", h.kind, h.text, <<>>))
  /\ dailyPost' = Put(WithPostEntry(h.from), h.from, IncText(WithPostEntry(h.from)[h.from]))
  /\ UNCHANGED <<dailyDownload, welcomed, banned, now, lastBan, eager>>

\* The awaited relay of handler h settles: fulfilled (ok) or rejected.
MemberPostResume(h, ok) ==
  /\ h \in pending
  /\ pending' = pending \ {h}
  /\ out' = LogAfterRelay(h, ok)
  /\ ev' = Ev("resume", Ctx(h.from, "private", h.kind, h.text, <<>>))
  /\ UNCHANGED <<dailyPost, dailyDownload, welcomed, banned, now, lastBan, eager>>

\* -------------------------------------------------------- download limit
\* mutant: the limit test lets one download too many through
DownloadQuotaReached_off(c) == c > DOWNLOAD_LIMIT
\* dailyDownload[id] >= 2 on the count c
DownloadQuotaReached(c) == c >= DOWNLOAD_LIMIT

\* bot.hears(/https?:\/\//, ...)
Download(ctx) ==
  /\ ctx.kind = "text"
  /\ MatchesUrl(ctx.text)
  /\ ev' = Ev("hears", ctx)
  /\ UNCHANGED <<dailyPost, welcomed, banned, now, pending, lastBan, eager>>
  /\ LET dd == IF ctx.from \in DOMAIN dailyDownload THEN dailyDownload
               ELSE Put(dailyDownload, ctx.from, 0)
     IN IF DownloadQuotaReached(dd[ctx.from])
          THEN /\ dailyDownload' = dd
               /\ out' = <<Reply(ctx, MSG_DL_QUOTA)>>
          ELSE /\ dailyDownload' = Put(dd, ctx.from, dd[ctx.from] + 1)
               /\ out' = <<Reply(ctx, MSG_DL_OK)>>

\* ------------------------------------------------------- anti link group
\* The branch of bot.on("message", ...) that reads the message: a text
\* message of a group or supergroup whose text includes "http".
AntiLinkActs(ctx) ==
  /\ ctx.chat \in {"group", "supergroup"}
  /\ ctx.kind = "text"
  /\ Includes(ctx.text, "http")

\* The middleware ends with next() unless getChatMember or deleteMessage
\* rejected (okMember, okDelete).
AntiLinkCallsNext(ctx, okMember, status, okDelete) ==
  \/ ~AntiLinkActs(ctx)
  \/ okMember /\ (status = "administrator" \/ okDelete)

\* banned as bot.on("message", ...) leaves it
AntiLinkBanned(ctx, okMember, status, okDelete) ==
  IF AntiLinkActs(ctx) /\ okMember /\ status # "administrator" /\ okDelete
    THEN Put(banned, Key(ctx.from), JsAdd(Num(now), Num(HOUR)))
    ELSE banned

\* the platform calls of bot.on("message", ...)
AntiLinkOut(ctx, okMember, status, okDelete) ==
  IF ~AntiLinkActs(ctx) THEN <<>>
  ELSE <<Call("getChatMember", ctx.chat, ctx.from, "-", <<>>)>> \o
       (IF okMember /\ status # "administrator"
          THEN <<Call("deleteMessage", ctx.chat, ctx.from, "-", <<>>)>>
          ELSE <<>>)

\* history: banned[key] = val replaces in b a record that expires later
MovesEarlier(b, key, val) ==
  key \in DOMAIN b /\ ~b[key].nan /\ ~val.nan /\ b[key].n > val.n

\* one entry of lastBan
BanNote(b, key, jam, val) ==
  [at |-> now, jam |-> jam, lifted |-> FALSE, earlier |-> MovesEarlier(b, key, val)]

\* lastBan after bot.on("message", ...): a moderation ban is a 1-hour ban
AntiLinkLastBan(ctx, okMember, status, okDelete) ==
  IF AntiLinkActs(ctx) /\ okMember /\ status # "administrator" /\ okDelete
    THEN Put(lastBan, Key(ctx.from),
             BanNote(banned, Key(ctx.from), "1", JsAdd(Num(now), Num(HOUR))))
    ELSE lastBan

\* the eager tracker after bot.on("message", ...)
AntiLinkEager(ctx, okMember, status, okDelete) ==
  IF AntiLinkActs(ctx) /\ okMember /\ status # "administrator" /\ okDelete
    THEN EagerBan(eager, Key(ctx.from), JsAdd(Num(now), Num(HOUR)), now)
    ELSE eager

\* What bot.on("message", ...) hands to the middleware after it.
AfterAntiLink(ctx, okMember, status, okDelete) ==
  [banned |-> AntiLinkBanned(ctx, okMember, status, okDelete),
   out |-> AntiLinkOut(ctx, okMember, status, okDelete),
   lastBan |-> AntiLinkLastBan(ctx, okMember, status, okDelete),
   eager |-> AntiLinkEager(ctx, okMember, status, okDelete)]

\* What a handler that is invoked first in its dispatch starts from.
Here == [banned |-> banned, out |-> <<>>, lastBan |-> lastBan, eager |-> eager]

\* bot.on("message", ...) when no later middleware takes the update.  The
\* step is the handler from its resumption after deleteMessage on, where it
\* reads Date.now(); its awaited calls touch no state of the bot.
AntiLink(ctx, okMember, status, okDelete) ==
  /\ banned' = AntiLinkBanned(ctx, okMember, status, okDelete)
  /\ eager' = AntiLinkEager(ctx, okMember, status, okDelete)
  /\ out' = AntiLinkOut(ctx, okMember, status, okDelete)
  /\ lastBan' = AntiLinkLastBan(ctx, okMember, status, okDelete)
  /\ ev' = Ev("message", ctx)
  /\ UNCHANGED <<dailyPost, dailyDownload, welcomed, now, pending>>

\* --------------------------------------------------------------- welcome
\* u.first_name: the model names each user by its id
first_name(u) == ToString(u)
\* ctx.reply(`Selamat datang ${u.first_name}`)
WelcomeReply(ctx, u) == Call("reply", ctx.chat, ctx.from, "-", <<MSG_WELCOME, first_name(u)>>)

RECURSIVE WelcomeOut(_, _, _)
\* mutant: every listed member is welcomed, known or not
WelcomeOut_all(ctx, ms, w) == [i \in 1..Len(ms) |-> WelcomeReply(ctx, ms[i])]
\* the replies of the forEach over new_chat_members, w the welcomed set so far
WelcomeOut(ctx, ms, w) ==
  IF ms = <<>> THEN <<>>
  ELSE IF Head(ms) \in w THEN WelcomeOut(ctx, Tail(ms), w)
  ELSE <<WelcomeReply(ctx, Head(ms))>> \o WelcomeOut(ctx, Tail(ms), w \cup {Head(ms)})

\* bot.on("new_chat_members", ...); pre holds banned and the calls made as
\* the middleware before it in the same dispatch left them
Welcome(ctx, pre) ==
  /\ ctx.kind = "new_chat_members"
  /\ ev' = Ev("new_chat_members", ctx)
  /\ welcomed' = welcomed \cup {ctx.members[i] : i \in 1..Len(ctx.members)}
  /\ out' = pre.out \o WelcomeOut(ctx, ctx.members, welcomed)
  /\ banned' = pre.banned
  /\ eager' = pre.eager
  /\ lastBan' = pre.lastBan
  /\ UNCHANGED <<dailyPost, dailyDownload, now, pending>>

\* ----------------------------------------------------------------- admin
\* bot.command(name, ...) takes a text message that starts with /name
IsCommand(ctx, name) ==
  /\ ctx.kind = "text"
  /\ Len(ctx.text) >= 1
  /\ ctx.text[1] = name

\* mutant: the sender is not compared with the owner
IsOwner_any(id) == TRUE
\* ctx.from.id != OWNER is false: the number equals the configured string
IsOwner(id) == id = OWNER

\* (jam || 1) * 60 * 60 * 1000
BanDuration(jam) ==
  JsMul(IF jam = Undefined \/ jam = "" THEN Num(1) ELSE ToNumber(jam), Num(HOUR))

\* bot.command("ban", ...)
Ban(ctx, pre) ==
  /\ IsCommand(ctx, "/ban")
  /\ ev' = Ev("ban", ctx)
  /\ UNCHANGED <<dailyPost, dailyDownload, welcomed, now, pending>>
  /\ IF ~IsOwner(ctx.from)
       THEN /\ banned' = pre.banned
            /\ eager' = pre.eager
            /\ out' = pre.out
            /\ lastBan' = pre.lastBan
       ELSE LET id == Split(ctx.text, 1)
                jam == Split(ctx.text, 2)
            IN /\ banned' = Put(pre.banned, id, JsAdd(Num(now), BanDuration(jam)))
               /\ eager' = EagerBan(pre.eager, id, JsAdd(Num(now), BanDuration(jam)), now)
               /\ out' = pre.out \o <<Reply(ctx, MSG_BAN_OK)>>
               /\ lastBan' = Put(pre.lastBan, id,
                                  BanNote(pre.banned, id, jam,
                                          JsAdd(Num(now), BanDuration(jam))))

\* lastBan after an unban of key id: a ban on record is marked as lifted
Lift(lb, id) ==
  IF id \in DOMAIN lb THEN Put(lb, id, [lb[id] EXCEPT !.lifted = TRUE]) ELSE lb

\* bot.command("unban", ...)
Unban(ctx, pre) ==
  /\ IsCommand(ctx, "/unban")
  /\ ev' = Ev("unban", ctx)
  /\ UNCHANGED <<dailyPost, dailyDownload, welcomed, now, pending>>
  /\ IF ~IsOwner(ctx.from)
       THEN /\ banned' = pre.banned
            /\ eager' = pre.eager
            /\ out' = pre.out
            /\ lastBan' = pre.lastBan
       ELSE /\ banned' = Delete(pre.banned, Split(ctx.text, 1))
            /\ eager' = EagerUnban(pre.eager, Split(ctx.text, 1))
            /\ out' = pre.out \o <<Reply(ctx, MSG_UNBAN_OK)>>
            /\ lastBan' = Lift(pre.lastBan, Split(ctx.text, 1))

\* bot.command("kick", ...); ok: the awaited kickChatMember is fulfilled
Kick(ctx, pre, ok) ==
  /\ IsCommand(ctx, "/kick")
  /\ ev' = Ev("kick", ctx)
  /\ UNCHANGED <<dailyPost, dailyDownload, welcomed, now, pending>>
  /\ banned' = pre.banned
  /\ eager' = pre.eager
  /\ lastBan' = pre.lastBan
  /\ IF ~IsOwner(ctx.from)
       THEN out' = pre.out
       ELSE out' = pre.out \o <<Call("kickChatMember", ctx.chat, ctx.from, "-",
                                    <<Split(ctx.text, 1)>>)>>
                     \o (IF ok THEN <<Reply(ctx, MSG_KICK_OK)>> ELSE <<>>)

\* ------------------------------------------------------------- updates
\* the member's posts: tagged and untagged texts, photos and videos, and a
\* text in a group
PostUpdates ==
  { Ctx(Member, "private", "text", t, <<>>) : t \in {<<"hello", "#pria">>, <<"hello">>} }
  \cup { Ctx(Member, "private", "photo", t, <<>>) : t \in {<<"#wanita">>, <<>>} }
  \cup { Ctx(Member, "private", "video", <<"#wanita", "#pria">>, <<>>),
         Ctx(Member, "group", "text", <<"hello", "#pria">>, <<>>) }

\* messages with a link
LinkUpdates ==
  { Ctx(Member, "private", "text", <<"http://x">>, <<>>),
    Ctx(OWNER, "group", "text", <<"https://x", "#pria">>, <<>>) }

\* --------------------------------------------------------- specifications
\* administrator commands, from the owner and from a member
BanUpdates ==
  { Ctx(u, "private", "text", t, <<>>) :
      u \in Users,
      t \in { <<"/ban", "12345">>, <<"/ban", "12345", "0">>, <<"/ban", "12345", "-3">>,
              <<"/ban", "12345", "2">>, <<"/ban", "12345", "x">> } }
UnbanUpdates == { Ctx(u, "private", "text", <<"/unban", "12345">>, <<>>) : u \in Users }
KickUpdates == { Ctx(u, "group", "text", <<"/kick", "12345">>, <<>>) : u \in Users }

\* group messages that the anti-link middleware reads
GroupUpdates ==
  { Ctx(Member, "group", "text", t, <<>>) : t \in {<<"http://x">>, <<"hello">>} }

\* chat-member statuses the platform reports
Statuses == {"administrator", "creator", "member"}

\* new-member service messages
JoinUpdates ==
  { Ctx(OWNER, "group", "new_chat_members", <<>>, ms) :
      ms \in {<<Member, Member>>, <<OWNER, Member>>} }

\* the member's private text posts
MemberTexts ==
  { Ctx(Member, "private", "text", t, <<>>) : t \in {<<"hello", "#pria">>, <<"hello">>} }

\* Bans with every form of the hours argument, unbans and the clock.
NextBan ==
  \/ \E ctx \in BanUpdates : Ban(ctx, Here)
  \/ \E ctx \in UnbanUpdates : Unban(ctx, Here)
  \/ \E ctx \in GroupUpdates, okM \in BOOLEAN, st \in Statuses, okD \in BOOLEAN :
        AntiLink(ctx, okM, st, okD)
  \/ Tick

SpecBan == Init /\ [][NextBan]_vars

\* the administrator commands of the owner and of a member, on two users
AdminBans ==
  { Ctx(u, "private", "text", t, <<>>) :
      u \in Users, t \in {<<"/ban", "12345", "2">>, <<"/ban", "1">>} }
AdminUnbans ==
  { Ctx(u, "private", "text", t, <<>>) :
      u \in Users, t \in {<<"/unban", "12345">>, <<"/unban", "1">>} }
AdminJoins == { Ctx(OWNER, "group", "new_chat_members", <<>>, <<Member, Member>>) }

\* Administrator commands among posts, welcomes, the reset timer and the clock.
NextAdmin ==
  \/ \E ctx \in AdminBans : Ban(ctx, Here)
  \/ \E ctx \in AdminUnbans : Unban(ctx, Here)
  \/ \E ctx \in KickUpdates, ok \in BOOLEAN : Kick(ctx, Here, ok)
  \/ \E ctx \in AdminJoins : Welcome(ctx, Here)
  \/ \E ctx \in MemberTexts : MemberPost(ctx)
  \/ \E h \in pending, ok \in BOOLEAN : MemberPostResume(h, ok)
  \/ resetDaily
  \/ Tick

SpecAdmin == Init /\ [][NextAdmin]_vars

\* Posts and downloads, the reset timer, and a ban and welcomes for the
\* reset to leave alone.
QuotaBans == { Ctx(OWNER, "private", "text", <<"/ban", "12345", "2">>, <<>>) }
NextQuota ==
  \/ \E ctx \in PostUpdates \cup LinkUpdates : MemberPost(ctx)
  \/ \E h \in pending, ok \in BOOLEAN : MemberPostResume(h, ok)
  \/ \E ctx \in LinkUpdates : Download(ctx)
  \/ \E ctx \in QuotaBans : Ban(ctx, Here)
  \/ \E ctx \in AdminJoins : Welcome(ctx, Here)
  \/ resetDaily

SpecQuota == Init /\ [][NextQuota]_vars

\* New-member events among bans, unbans, link attempts and the reset timer.
NextWelcome ==
  \/ \E ctx \in JoinUpdates : Welcome(ctx, Here)
  \/ \E ctx \in QuotaBans : Ban(ctx, Here)
  \/ \E ctx \in UnbanUpdates : Unban(ctx, Here)
  \/ \E ctx \in LinkUpdates : Download(ctx)
  \/ resetDaily

SpecWelcome == Init /\ [][NextWelcome]_vars

\* Bans with every form of the hours argument, unbans, moderation bans, the
\* member's posts, the reset timer and the clock.
NextExpiry ==
  \/ \E ctx \in BanUpdates : Ban(ctx, Here)
  \/ \E ctx \in UnbanUpdates : Unban(ctx, Here)
  \/ \E ctx \in GroupUpdates, okM \in BOOLEAN, st \in Statuses, okD \in BOOLEAN :
        AntiLink(ctx, okM, st, okD)
  \/ \E ctx \in MemberTexts : MemberPost(ctx)
  \/ \E h \in pending, ok \in BOOLEAN : MemberPostResume(h, ok)
  \/ resetDaily
  \/ Tick

SpecExpiry == Init /\ [][NextExpiry]_vars

\* ----------------------------------------------------------- dispatch
\* Updates as the platform delivers them to the bot.
DispatchUpdates ==
  { Ctx(OWNER, "private", "text", <<"/ban", "12345", "2">>, <<>>),
    Ctx(OWNER, "group", "text", <<"/ban", "12345", "2">>, <<>>),
    Ctx(OWNER, "private", "text", <<"/unban", "12345">>, <<>>),
    Ctx(OWNER, "group", "text", <<"/kick", "12345">>, <<>>),
    Ctx(Member, "private", "text", <<"hello", "#pria">>, <<>>),
    Ctx(Member, "private", "text", <<"hello">>, <<>>),
    Ctx(Member, "private", "text", <<"http://x", "#wanita">>, <<>>),
    Ctx(Member, "group", "text", <<"http://x">>, <<>>),
    Ctx(Member, "group", "sticker", <<>>, <<>>),
    Ctx(Member, "private", "sticker", <<>>, <<>>),
    Ctx(OWNER, "group", "new_chat_members", <<>>, <<Member, Member>>) }

\* One update goes down the middleware in registration order: bot.on of
\* text/photo/video, bot.hears, bot.on("message"), bot.on of
\* new_chat_members, then the three commands.  A middleware whose filter
\* does not match passes the update on; of the handlers only
\* bot.on("message") calls next().
Deliver(ctx, okMember, status, okDelete, okKick) ==
  IF ctx.kind \in {"text", "photo", "video"} THEN MemberPost(ctx)
  ELSE IF ctx.kind = "text" /\ MatchesUrl(ctx.text) THEN Download(ctx)
  ELSE IF ~AntiLinkCallsNext(ctx, okMember, status, okDelete)
    THEN AntiLink(ctx, okMember, status, okDelete)
  ELSE LET pre == AfterAntiLink(ctx, okMember, status, okDelete)
       IN IF ctx.kind = "new_chat_members" THEN Welcome(ctx, pre)
          ELSE IF IsCommand(ctx, "/ban") THEN Ban(ctx, pre)
          ELSE IF IsCommand(ctx, "/unban") THEN Unban(ctx, pre)
          ELSE IF IsCommand(ctx, "/kick") THEN Kick(ctx, pre, okKick)
          ELSE AntiLink(ctx, okMember, status, okDelete)

\* The bot as launched: updates through the middleware chain, suspended
\* relays settling, the reset timer and the clock.
NextDispatch ==
  \/ \E ctx \in DispatchUpdates, okM \in BOOLEAN, st \in Statuses,
         okD \in BOOLEAN, okK \in BOOLEAN : Deliver(ctx, okM, st, okD, okK)
  \/ \E h \in pending, ok \in BOOLEAN : MemberPostResume(h, ok)
  \/ resetDaily
  \/ Tick

SpecDispatch == Init /\ [][NextDispatch]_vars

\* ------------------------------------------------------------ properties
\* calls of the last step that relay a post to the target chat
Relays == { i \in 1..Len(out) : out[i].chat = TARGET }
\* calls of the last step that write a log line
Logs == { i \in 1..Len(out) : out[i].chat = LOG }
\* a post that passes the tag check
Tagged(ctx) == Gender(ctx.text) # "null"

\* C1 (bound): no user's text counter exceeds 5.
C1Bound == \A u \in Users : TextCount(u) <= TEXT_LIMIT

\* C1 (step): when a user's text counter is 5, any private text message of
\* that user leaves it at 5, relays nothing and suspends no handler; and the
\* message that reaches the quota check (tagged, sender not banned) is
\* answered with the text-quota message.
C1Step ==
  \A ctx \in MemberTexts :
    (TextCount(ctx.from) = TEXT_LIMIT /\ MemberPost(ctx)) =>
      /\ TextCount(ctx.from)' = TEXT_LIMIT
      /\ pending' = pending
      /\ Relays' = {}
      /\ Len(out') = 1 /\ out'[1].api = "reply"
      /\ (Tagged(ctx) /\ ~isBanned(ctx.from)) => out' = <<Reply(ctx, MSG_TEXT_QUOTA)>>

\* C1: the text counter never exceeds 5, and at 5 every further text attempt
\* before the next reset is rejected with the quota message, counter still 5.
C1Theorem == []C1Bound /\ [][C1Step]_vars

\* C1 witness: the member is at the limit and the last attempt was rejected
\* with the quota message.
C1Witness ==
  /\ TextCount(Member) = TEXT_LIMIT
  /\ out = <<Reply(Ctx(Member, "private", "text", <<"hello", "#pria">>, <<>>), MSG_TEXT_QUOTA)>>

\* C2 (bound): no user's media counter exceeds 10.
C2Bound == \A u \in Users : MediaCount(u) <= MEDIA_LIMIT

\* C2 (step): a photo or video sent at media count 10 is rejected and counts
\* nothing; a media post never changes a text counter and a text post never
\* changes a media counter; an admitted post adds exactly one to its counter.
C2Step ==
  \A ctx \in PostUpdates \cup LinkUpdates :
    MemberPost(ctx) =>
      /\ (ctx.kind # "text" /\ ctx.chat = "private" /\ MediaCount(ctx.from) = MEDIA_LIMIT) =>
            /\ MediaCount(ctx.from)' = MEDIA_LIMIT
            /\ Relays' = {}
            /\ pending' = pending
            /\ (Tagged(ctx) /\ ~isBanned(ctx.from)) =>
                  out' = <<Reply(ctx, MSG_MEDIA_QUOTA)>>
      /\ ctx.kind # "text" =>
            /\ \A u \in Users : TextCount(u)' = TextCount(u)
            /\ \A u \in Users \ {ctx.from} : MediaCount(u)' = MediaCount(u)
            /\ Relays' # {} <=> MediaCount(ctx.from)' = MediaCount(ctx.from) + 1
            /\ Relays' = {} <=> MediaCount(ctx.from)' = MediaCount(ctx.from)
      /\ ctx.kind = "text" =>
            /\ \A u \in Users : MediaCount(u)' = MediaCount(u)
            /\ \A u \in Users \ {ctx.from} : TextCount(u)' = TextCount(u)
            /\ Relays' # {} <=> TextCount(ctx.from)' = TextCount(ctx.from) + 1
            /\ Relays' = {} <=> TextCount(ctx.from)' = TextCount(ctx.from)

\* C2: the media counter never exceeds 10, an attempt at 10 is rejected
\* without incrementing, and an admitted post increments only its own counter.
C2Theorem == []C2Bound /\ [][C2Step]_vars

\* C2 witness: the member, with admitted text posts, is at the media limit
\* and the last photo was rejected with the media-quota message.
C2Witness ==
  /\ MediaCount(Member) = MEDIA_LIMIT
  /\ TextCount(Member) = 2
  /\ out = <<Reply(Ctx(Member, "private", "photo", <<"#wanita">>, <<>>), MSG_MEDIA_QUOTA)>>

\* C3 (bound): no user's download counter exceeds 2.
C3Bound == \A u \in Users : DownloadCount(u) <= DOWNLOAD_LIMIT

\* C3 (step): a link attempt below the limit is admitted and counted, one at
\* the limit is rejected and not counted; a link attempt leaves the post
\* counters alone and a post leaves the download counters alone.
C3Step ==
  /\ \A ctx \in LinkUpdates :
       Download(ctx) =>
         /\ dailyPost' = dailyPost
         /\ \A u \in Users \ {ctx.from} : DownloadCount(u)' = DownloadCount(u)
         /\ DownloadCount(ctx.from) < DOWNLOAD_LIMIT =>
              /\ DownloadCount(ctx.from)' = DownloadCount(ctx.from) + 1
              /\ out' = <<Reply(ctx, MSG_DL_OK)>>
         /\ DownloadCount(ctx.from) >= DOWNLOAD_LIMIT =>
              /\ DownloadCount(ctx.from)' = DownloadCount(ctx.from)
              /\ out' = <<Reply(ctx, MSG_DL_QUOTA)>>
  /\ \A ctx \in PostUpdates \cup LinkUpdates :
       MemberPost(ctx) => dailyDownload' = dailyDownload
  /\ \A h \in pending, ok \in BOOLEAN :
       MemberPostResume(h, ok) => dailyDownload' = dailyDownload /\ dailyPost' = dailyPost

C4Step ==
  /\ resetDaily =>
       /\ \A u \in Users :
            TextCount(u)' = 0 /\ MediaCount(u)' = 0 /\ DownloadCount(u)' = 0
       /\ banned' = banned
       /\ welcomed' = welcomed
  /\ \A ctx \in PostUpdates :
       (/\ MemberPost(ctx)
        /\ ctx.chat = "private" /\ Tagged(ctx) /\ ~isBanned(ctx.from)
        /\ IF ctx.kind = "text" THEN TextCount(ctx.from) = 0
                                ELSE MediaCount(ctx.from) = 0) => Relays' # {}
  /\ \A ctx \in LinkUpdates :
       (Download(ctx) /\ DownloadCount(ctx.from) = 0) => out' = <<Reply(ctx, MSG_DL_OK)>>

\* C4: resetDaily, from any reachable state, zeroes all text, media and
\* download counters (so a user at a limit is admitted again) and leaves the
\* ban records and the welcomed set unchanged.
C4Theorem == [][C4Step]_vars

\* C4 witness: the reset has run after a post was counted (its handler is
\* still suspended), with a ban record and welcomed users in place, and the
\* counters are all 0.
C4Witness ==
  /\ pending # {}
  /\ dailyPost = EmptyObj /\ dailyDownload = EmptyObj
  /\ out = <<>>
  /\ "12345" \in DOMAIN banned
  /\ welcomed = {Member}

\* hours of an explicit positive hours argument
C5Hours(jam) == IF jam = "1" THEN 1 ELSE 2

\* C5: a user last banned at time t for h > 0 hours, and not unbanned since,
\* is banned at every time before t + h hours and at no time from t + h
\* hours on.
C5Theorem ==
  \A u \in Users :
    (/\ Key(u) \in DOMAIN lastBan
     /\ ~lastBan[Key(u)].lifted
     /\ lastBan[Key(u)].jam \in {"1", "2"}) =>
       (isBanned(u) <=>
          now < lastBan[Key(u)].at + C5Hours(lastBan[Key(u)].jam) * HOUR)

\* C5 witness: a 2-hour ban of the member reaches the instant it expires.
C5Witness ==
  /\ "12345" \in DOMAIN lastBan
  /\ lastBan["12345"].at = StartTime
  /\ lastBan["12345"].jam = "2"
  /\ ~lastBan["12345"].lifted
  /\ now = StartTime + 2 * HOUR
  /\ ~isBanned(Member)

\* C6 (as claimed): a ban without hours, with 0 hours or with -3 hours stores
\* the expiry now + 1 hour, and the user is banned right after the command.
C6Claim ==
  \A u \in Users :
    (/\ Key(u) \in DOMAIN lastBan
     /\ ~lastBan[Key(u)].lifted
     /\ lastBan[Key(u)].jam \in {Undefined, "0", "-3"}) =>
       /\ banned[Key(u)] = Num(lastBan[Key(u)].at + HOUR)
       /\ (now = lastBan[Key(u)].at => isBanned(u))

\* C7 (step): an unban by the owner removes the record of the named user, who
\* is then not banned; it changes no other record, no counter, no welcomed
\* entry, and nothing at all when the user has no record.
C7Step ==
  \A ctx \in AdminUnbans :
    (ctx.from = OWNER /\ Unban(ctx, Here)) =>
      /\ ctx.text[2] \notin DOMAIN banned'
      /\ \A u \in Users : Key(u) = ctx.text[2] => ~isBanned(u)'
      /\ \A k \in DOMAIN banned \ {ctx.text[2]} :
            k \in DOMAIN banned' /\ banned'[k] = banned[k]
      /\ ctx.text[2] \notin DOMAIN banned => banned' = banned
      /\ UNCHANGED <<dailyPost, dailyDownload, welcomed, pending, now>>

\* C7: after unban(u), isBanned(u) is false at once, even before the expiry;
\* nothing else changes.
C7Theorem == [][C7Step]_vars

\* C7 witness: the owner has just unbanned the member one hour into a 2-hour
\* ban, while the owner's own record, a counted post and a welcomed user
\* are in place.
C7Witness ==
  /\ ev = Ev("unban", Ctx(OWNER, "private", "text", <<"/unban", "12345">>, <<>>))
  /\ "12345" \in DOMAIN lastBan
  /\ lastBan["12345"].lifted /\ lastBan["12345"].jam = "2"
  /\ now = lastBan["12345"].at + HOUR
  /\ ~isBanned(Member)
  /\ "1" \in DOMAIN banned
  /\ TextCount(Member) > 0
  /\ welcomed # {}

\* C8 (step): a ban, unban or kick command of a sender other than the owner
\* changes nothing and makes no platform call.
C8Step ==
  \A ctx \in AdminBans \cup AdminUnbans \cup KickUpdates :
    (/\ ctx.from # OWNER
     /\ \/ Ban(ctx, Here)
        \/ Unban(ctx, Here)
        \/ \E ok \in BOOLEAN : Kick(ctx, Here, ok)) =>
      /\ UNCHANGED <<dailyPost, dailyDownload, welcomed, banned, now, pending>>
      /\ out' = <<>>

C9Claim ==
  (ev.ctx = Ctx(OWNER, "private", "text", <<"/ban", "12345", "2">>, <<>>)) =>
     /\ ev.op = "ban"
     /\ isBanned(Member)

\* the private text "hello #pria" of the member
HelloPria == Ctx(Member, "private", "text", <<"hello", "#pria">>, <<>>)

\* C10 (step): "hello #pria" delivered below the limit is counted and relayed
\* verbatim, and its handler then logs it with gender "Pria" when the relay is
\* fulfilled; delivered at the limit it gets the quota message and is neither
\* relayed nor logged.  No text is relayed unless it was counted, and no log
\* line is written except by a handler resuming from its relay.
C10Step ==
  /\ \A okM \in BOOLEAN, st \in Statuses, okD \in BOOLEAN, okK \in BOOLEAN :
       (Deliver(HelloPria, okM, st, okD, okK) /\ ~isBanned(Member)) =>
         IF TextCount(Member) < TEXT_LIMIT
           THEN /\ TextCount(Member)' = TextCount(Member) + 1
                /\ out' = <<Call("sendMessage", TARGET, Member, "-", <<"hello", "#pria">>)>>
                /\ pending' = pending \cup
                      {[from |-> Member, kind |-> "text", gender |-> "Pria",
                        text |-> <<"hello", "#pria">>]}
           ELSE /\ TextCount(Member)' = TextCount(Member)
                /\ out' = <<Reply(HelloPria, MSG_TEXT_QUOTA)>>
                /\ pending' = pending
  /\ \A h \in pending :
       (MemberPostResume(h, TRUE) /\ h.text = <<"hello", "#pria">>) =>
          out' = <<Call("sendMessage", LOG, h.from, "Pria", <<"hello", "#pria">>)>>
  /\ Relays' # {} =>
       \E u \in Users : TextCount(u)' = TextCount(u) + 1 /\ ev'.op = "post"
  /\ Logs' # {} => ev'.op = "resume"

\* C10: of six "hello #pria" in one reset window the first five are admitted,
\* relayed and logged with gender "Pria" and the sixth is rejected with the
\* quota message, not relayed, not logged; a text is relayed only if admitted.
C10Theorem == [][C10Step]_vars

\* C10 witness: the member has five admitted texts, all handlers have
\* finished, and the sixth "hello #pria" was answered with the quota message.
C10Witness ==
  /\ TextCount(Member) = TEXT_LIMIT
  /\ ev = Ev("post", HelloPria)
  /\ out = <<Reply(HelloPria, MSG_TEXT_QUOTA)>>
  /\ pending = {}


\* C11 (step): while isBanned(u) holds, a private text or media post of u is
\* answered with the banned message, a link attempt of u is not accepted,
\* nothing is relayed and none of u's text, media or download counters moves.
C11Step ==
  /\ \A ctx \in PostUpdates \cup LinkUpdates :
       (isBanned(ctx.from) /\ ctx.chat = "private" /\ MemberPost(ctx)) =>
         /\ out' = <<Reply(ctx, MSG_BANNED)>>
         /\ Relays' = {}
         /\ pending' = pending
         /\ TextCount(ctx.from)' = TextCount(ctx.from)
         /\ MediaCount(ctx.from)' = MediaCount(ctx.from)
         /\ DownloadCount(ctx.from)' = DownloadCount(ctx.from)
  /\ \A ctx \in LinkUpdates :
       (isBanned(ctx.from) /\ Download(ctx)) =>
         /\ out' # <<Reply(ctx, MSG_DL_OK)>>
         /\ Relays' = {}
         /\ TextCount(ctx.from)' = TextCount(ctx.from)
         /\ MediaCount(ctx.from)' = MediaCount(ctx.from)
         /\ DownloadCount(ctx.from)' = DownloadCount(ctx.from)

\* C11: no action of a banned user is admitted: posts get the banned message,
\* link attempts are rejected, nothing is relayed and no counter changes.
C11Claim == [][C11Step]_vars


\* C12 (step): a private text, photo or video whose text or caption holds
\* neither tag creates no quota entry, changes no counter, suspends no
\* handler and relays and logs nothing; its only effect is one reply, which
\* is the fixed tag message when the sender is not banned.
C12Step ==
  \A ctx \in PostUpdates \cup LinkUpdates :
    (/\ ctx.chat = "private"
     /\ ~Includes(ctx.text, "#pria") /\ ~Includes(ctx.text, "#wanita")
     /\ MemberPost(ctx)) =>
      /\ dailyPost' = dailyPost
      /\ dailyDownload' = dailyDownload
      /\ pending' = pending
      /\ Relays' = {}
      /\ Logs' = {}
      /\ Len(out') = 1 /\ out'[1].api = "reply"
      /\ ~isBanned(ctx.from) => out' = <<Reply(ctx, MSG_NOTAG)>>

\* C12: a private post without #pria and without #wanita is rejected with the
\* fixed message before any quota state is touched: no entry is created, no
\* counter changes, nothing is relayed or logged.
C12Theorem == [][C12Step]_vars

\* C12 witness: the member's photo without a caption was just rejected with
\* the tag message and the member still has no quota entry, although the
\* member used the link handler before.
C12Witness ==
  /\ ev = Ev("post", Ctx(Member, "private", "photo", <<>>, <<>>))
  /\ out = <<Reply(ev.ctx, MSG_NOTAG)>>
  /\ Member \notin DOMAIN dailyPost
  /\ DownloadCount(Member) = 1


\* a message has a link-like substring
C13Link(ctx) == Includes(ctx.text, "http")

\* C13 (step): when the platform delivers a message of a non-private chat
\* that holds a link and the platform calls of the moderation succeed, a
\* sender who is not an administrator has the message deleted and the ban
\* expiry set to now + 1 hour, and an administrator's message is not deleted
\* and banned is left alone; a message of a private chat leaves banned alone.
C13Step ==
  \A ctx \in DispatchUpdates, st \in Statuses, okK \in BOOLEAN :
    Deliver(ctx, TRUE, st, TRUE, okK) =>
      /\ (ctx.chat # "private" /\ C13Link(ctx) /\ st = "member") =>
            /\ \E i \in 1..Len(out') : out'[i].api = "deleteMessage"
            /\ Key(ctx.from) \in DOMAIN banned'
            /\ banned'[Key(ctx.from)] = Num(now + HOUR)
      /\ (ctx.chat # "private" /\ C13Link(ctx) /\ st = "administrator") =>
            /\ \A i \in 1..Len(out') : out'[i].api # "deleteMessage"
            /\ banned' = banned
      /\ ctx.chat = "private" => banned' = banned

\* C13: every link message of a non-private chat is moderated: deleted with
\* a 1-hour ban of the sender unless the sender is an administrator; private
\* messages never cause a moderation ban.
C13Claim == [][C13Step]_vars


\* the welcomes for user u among the calls of the step that ends here
C14Welcomes(u) ==
  { i \in 1..Len(out) : out[i].api = "reply" /\ out[i].body = <<MSG_WELCOME, ToString(u)>> }

\* C14 (step): no step removes an id from welcomed; a step emits at most one
\* welcome for a user, and only for a user it adds to welcomed; a new-member
\* event emits exactly one welcome for each listed user that was not in
\* welcomed, however often listed, and none for a user already in it.
C14Step ==
  /\ welcomed \subseteq welcomed'
  /\ \A u \in Users :
       /\ Cardinality(C14Welcomes(u)') <= 1
       /\ C14Welcomes(u)' # {} => u \notin welcomed /\ u \in welcomed'
  /\ \A ctx \in JoinUpdates :
       Welcome(ctx, Here) =>
         \A i \in 1..Len(ctx.members) :
           /\ ctx.members[i] \in welcomed'
           /\ ctx.members[i] \notin welcomed => Cardinality(C14Welcomes(ctx.members[i])') = 1

\* C14: each user id is welcomed at most once over the run: the first
\* occurrence of an id in a new-member event adds it to welcomed and emits a
\* welcome, later occurrences emit nothing, and no operation removes an id.
C14Theorem == [][C14Step]_vars

\* C14 witness: after a ban and an unban of the member and with the counters
\* empty, an event listing the owner and the already welcomed member has
\* welcomed the owner only.
C14Witness ==
  /\ ev = Ev("new_chat_members", Ctx(OWNER, "group", "new_chat_members", <<>>, <<OWNER, Member>>))
  /\ out = <<WelcomeReply(ev.ctx, OWNER)>>
  /\ welcomed = {OWNER, Member}
  /\ Key(Member) \in DOMAIN lastBan /\ lastBan[Key(Member)].lifted
  /\ dailyDownload = EmptyObj


\* C15 (state): right after the reset timer ran, the post counters and the
\* download counters are both cleared, never one without the other.
C15Cleared == ev.op = "resetDaily" => dailyPost = EmptyObj /\ dailyDownload = EmptyObj

\* C15 (step): whatever handlers are suspended at their relay await, the
\* reset leaves every counter of every user at 0 and the suspended handlers
\* as they are, and a handler that resumes changes no counter.
C15Step ==
  /\ resetDaily =>
       /\ \A u \in Users : TextCount(u)' = 0 /\ MediaCount(u)' = 0 /\ DownloadCount(u)' = 0
       /\ pending' = pending
  /\ \A h \in pending, ok \in BOOLEAN :
       MemberPostResume(h, ok) =>
         \A u \in Users : /\ TextCount(u)' = TextCount(u)
                          /\ MediaCount(u)' = MediaCount(u)
                          /\ DownloadCount(u)' = DownloadCount(u)

\* C15: the reset is atomic under every interleaving with post handlers
\* suspended at their relay await: both counter maps are cleared together,
\* and an increment made before the reset is not carried into the new window
\* by a handler that resumes after it.
C15Theorem == []C15Cleared /\ [][C15Step]_vars

\* C15 witness: a handler that counted its post before the reset has
\* resumed and logged after it, and every counter is still 0.
C15Witness ==
  /\ ev.op = "resume"
  /\ Logs # {}
  /\ dailyPost = EmptyObj
  /\ dailyDownload = EmptyObj


\* hours of a ban whose argument is absent (the default), "1" or "2"
C16Hours(jam) == IF jam = "2" THEN 2 ELSE 1

\* C16 (state): the stored expiry of a user is the time of the user's last
\* ban plus the duration of that ban, whatever record the ban replaced.
C16Record ==
  \A k \in DOMAIN lastBan :
    (~lastBan[k].lifted /\ lastBan[k].jam \in {Undefined, "1", "2"}) =>
      /\ k \in DOMAIN banned
      /\ banned[k] = Num(lastBan[k].at + C16Hours(lastBan[k].jam) * HOUR)

\* C16 (step): a ban command of the owner that repeats the user's last ban at
\* the same instant with the same hours leaves banned as it is, and so does a
\* moderation ban that repeats a moderation ban of the same instant.
C16Step ==
  /\ \A ctx \in BanUpdates :
       (/\ ctx.from = OWNER
        /\ Split(ctx.text, 1) \in DOMAIN lastBan
        /\ lastBan[Split(ctx.text, 1)].at = now
        /\ lastBan[Split(ctx.text, 1)].jam = Split(ctx.text, 2)
        /\ ~lastBan[Split(ctx.text, 1)].lifted
        /\ Ban(ctx, Here)) => banned' = banned
  /\ \A ctx \in GroupUpdates, okM \in BOOLEAN, st \in Statuses, okD \in BOOLEAN :
       (/\ Key(ctx.from) \in DOMAIN lastBan
        /\ lastBan[Key(ctx.from)].at = now
        /\ lastBan[Key(ctx.from)].jam = "1"
        /\ ~lastBan[Key(ctx.from)].lifted
        /\ AntiLink(ctx, okM, st, okD)) => banned' = banned

\* C16: a repeat ban overwrites the record: the expiry is the time of the
\* last ban plus its duration regardless of earlier bans, so a shorter
\* second ban moves the expiry earlier, and the same ban applied twice at
\* one instant gives the record of applying it once.
C16Theorem == []C16Record /\ [][C16Step]_vars

\* C16 witness: a moderation ban replaced a record that expired later, and
\* the stored expiry is the moderation ban's own hour.
C16Witness ==
  /\ "12345" \in DOMAIN lastBan
  /\ lastBan["12345"].earlier
  /\ lastBan["12345"].jam = "1"
  /\ ~lastBan["12345"].lifted
  /\ banned["12345"] = Num(lastBan["12345"].at + HOUR)


\* C17 (state): the tracker that keeps expired records and re-checks the
\* timestamp and the tracker that purges eagerly give the same is-banned
\* answer for every user.
C17Same == \A u \in Users : isBanned(u) <=> EagerIsBanned(u)

\* C17 (step): a private post is rejected as banned exactly when the eager
\* tracker reports its sender banned, and a post that is relayed comes from a
\* sender the eager tracker reports not banned.
C17Step ==
  \A ctx \in MemberTexts :
    MemberPost(ctx) =>
      /\ out' = <<Reply(ctx, MSG_BANNED)>> <=> EagerIsBanned(ctx.from)
      /\ Relays' # {} => ~EagerIsBanned(ctx.from)

\* C17: lazy expiry and eager purge are equivalent: after every sequence of
\* ban, unban, post, reset and clock steps both trackers give the same
\* is-banned result and the same admit/reject decision for every user.
C17Theorem == []C17Same /\ [][C17Step]_vars

\* C17 witness: the lazy tracker still holds the record of the member's
\* 2-hour ban, which has expired, the eager tracker has deleted it, and the
\* member's post was just admitted.
C17Witness ==
  /\ Key(Member) \in DOMAIN banned
  /\ Key(Member) \notin DOMAIN eager
  /\ lastBan[Key(Member)].jam = "2" /\ ~lastBan[Key(Member)].lifted
  /\ ev.op = "post" /\ ev.ctx.from = Member
  /\ Relays # {}


\* C18 (step): the step that issues the relay of an admitted post has the
\* post counted already and writes no log line; a log line is written only
\* by the step in which the relay of a suspended handler is fulfilled, one
\* line for that post; when the relay is rejected the step writes nothing and
\* leaves the counters as incremented.
C18Step ==
  /\ \A ctx \in PostUpdates \cup LinkUpdates :
       MemberPost(ctx) =>
         /\ Logs' = {}
         /\ Relays' # {} =>
              /\ Cardinality(Relays') = 1
              /\ IF ctx.kind = "text"
                   THEN TextCount(ctx.from)' = TextCount(ctx.from) + 1
                   ELSE MediaCount(ctx.from)' = MediaCount(ctx.from) + 1
              /\ \E h \in pending' \ pending : h.from = ctx.from /\ h.kind = ctx.kind
  /\ \A h \in pending, ok \in BOOLEAN :
       MemberPostResume(h, ok) =>
         /\ Relays' = {}
         /\ pending' = pending \ {h}
         /\ dailyPost' = dailyPost
         /\ ok => /\ Len(out') = 1
                  /\ out'[1].chat = LOG /\ out'[1].from = h.from
                  /\ out'[1].body = (IF h.kind = "text" THEN h.text ELSE <<"MEDIA">>)
         /\ ~ok => out' = <<>>
  /\ Logs' # {} => Cardinality(Logs') = 1 /\ Cardinality(pending \ pending') = 1

\* C18: an admitted post is counted, then relayed, then logged; a log line
\* follows only a relay that succeeded, so log lines never outnumber
\* successful relays; a failed relay leaves no log line and the quota
\* consumed.
C18Theorem == [][C18Step]_vars

\* C18 witness: the relay of the member's only text post was rejected:
\* nothing was logged and the text counter stays at 1.
C18Witness ==
  /\ ev = Ev("resume", HelloPria)
  /\ out = <<>>
  /\ pending = {}
  /\ TextCount(Member) = 1

====
